---- MODULE Spec2Model ----
(***************************************************************************)
(* Verification model of the AITutor (Eduverse / ClassMind) indexing and   *)
(* question-answering pipeline.                                            *)
(*                                                                         *)
(* The backend of the repository exists as the Python listings of          *)
(* genai_pitch_deck.md (sections 6-9) and the file plan of                 *)
(* Implementation_Plan.md; the model follows those listings:               *)
(*   - the LangGraph indexing workflow (download, load, enrich, chunk,     *)
(*     embed nodes, linear edges, SqliteSaver(":memory:") checkpointer,    *)
(*     the "resume" call app.ainvoke(result, config));                     *)
(*   - EduverseVectorStore (add, delete_file, get_retriever) over          *)
(*     per-user collections "user_<id>";                                   *)
(*   - the retrieval pipeline (MMR base retriever, multi-query, rerank);   *)
(*   - extract_citations and the /chat/query endpoint that returns its     *)
(*     result next to the answer, and the chain's conversation memory;     *)
(*   - process_pdf, process_video and the splitter of chunk_node.          *)
(* The frontend is React code: AuthProvider (AuthContext.jsx), the routes  *)
(* of App.jsx and the login and logout handlers.                           *)
(* The job endpoints (POST /index/file, GET /index/status of indexing.py)  *)
(* are only declared in the plan, and cancel(jobId) only in the written    *)
(* specification; the admission rule, the failure record of the job status *)
(* and the cancellation mark are taken from the written specification and  *)
(* are marked as such where they are defined.                              *)
(***************************************************************************)
EXTENDS Integers, Sequences, FiniteSets, TLC

VARIABLES
    jobs,       \* sequence of IndexingState records, one per accepted submission
    ckpt,       \* SqliteSaver(":memory:"): per job (thread) the step last saved, or None
    index,      \* the vector store: set of entries [id, collection, source, ordinal]
    nextId,     \* number of the next add_documents call (source of fresh ids)
    resumes,    \* number of resume calls made so far
    resp,       \* response of the last submit call
    lastOp,     \* last call made on an EduverseVectorStore: [op, user, arg]
    result,     \* documents returned by the last retriever call
    answer,     \* answer text handed to extract_citations (sequence of characters)
    source_docs,\* source documents handed to extract_citations
    citations,  \* value returned by extract_citations
    response,   \* what the /chat/query endpoint has answered
    merged,     \* documents the multi-query retriever handed to the reranker
    chat_history,   \* buffer of the ConversationBufferMemory of a session
    media,      \* the file handed to process_pdf / process_video
    segments,   \* documents process_pdf / process_video returned
    split,      \* chunks split_documents made of those documents
    isAuthenticated,    \* AuthProvider state
    user,               \* AuthProvider state
    localStorage,       \* value stored under 'classmind_auth'
    effectRan,          \* isAuthenticated value the effect last ran for
    location            \* path the router shows

vars == <<jobs, ckpt, index, nextId, resumes, resp, lastOp, result,
          answer, source_docs, citations, response, merged, chat_history,
          media, segments, split,
          isAuthenticated, user, localStorage, effectRan, location>>

ingestVars == <<jobs, ckpt, resumes, resp>>
storeVars  == <<lastOp, result, merged>>
citeVars   == <<answer, source_docs, citations, response>>
chatVars   == <<chat_history>>
mediaVars  == <<media, segments, split>>
authVars   == <<isAuthenticated, user, localStorage, effectRan, location>>

None == "none"

----------------------------------------------------------------------------
(* Bounds of the model *)

MaxJobs == 2        \* accepted submissions
MaxResumes == 1     \* resume calls
MaxAdds == 3        \* direct add calls on vector stores
MaxVec == 3         \* query embeddings are 1..MaxVec
MaxK == 2           \* largest k asked of a retriever
MaxFrags == 3       \* fragments an answer text is made of
MaxDocs == 2        \* retrieved source documents of an answer
MaxAsks == 3        \* questions asked in one session
MaxQueries == 2     \* queries the multi-query retriever generates
TopN == 2           \* documents the reranker keeps (top_n)
MaxPages == 2       \* pages of a PDF
MaxImages == 2      \* images on a page
MaxTime == 3        \* timestamps of a video are 0..MaxTime
MaxSegs == 2        \* audio segments of a transcript

----------------------------------------------------------------------------
(* Artifacts, users, and the content the pipeline derives from an artifact *)

Users == {"u1", "u2"}
Artifacts == {"f1", "f2"}

\* the user that syncs the file (IndexingState.user_id of its jobs)
Owner(a) == IF a = "f1" THEN "u1" ELSE "u2"

\* number of pages PyPDFLoader yields / number of chunks the splitter yields
PageCount(a) == IF a = "f1" THEN 2 ELSE 1
ChunkCount(a) == IF a = "f1" THEN 2 ELSE 1

\* collection_name=f"user_{user_id}"
CollectionName(u) == <<"user_", u>>

\* download_from_drive(file_id)
DownloadPath(a) == <<"path", a>>

\* loader.load(): one Document per page
LoadDocs(a) == [p \in 1..PageCount(a) |-> [page |-> p, enriched |-> FALSE]]

\* [enrich_with_vision(doc) for doc in documents]
EnrichDocs(docs) == [p \in DOMAIN docs |-> [docs[p] EXCEPT !.enriched = TRUE]]

\* splitter.split_documents(documents): chunks in document order
SplitDocs(a, docs) ==
    IF docs = <<>> THEN <<>>
    ELSE [o \in 1..ChunkCount(a) |-> [source_id |-> a, ordinal |-> o]]

----------------------------------------------------------------------------
(* The workflow graph *)

Nodes == {"Downloading", "Loading", "Enriching", "Chunking", "Embedding"}
Terminal == {"Completed", "Failed"}
Stages == {"Pending"} \cup Nodes \cup Terminal

\* set_entry_point("download"), the add_edge calls, and END
EdgesSkip ==
    {<<"Pending", "Downloading">>, <<"Downloading", "Loading">>,
     <<"Loading", "Chunking">>, <<"Enriching", "Chunking">>,
     <<"Chunking", "Embedding">>, <<"Embedding", "Completed">>}

Edges ==
    {<<"Pending", "Downloading">>, <<"Downloading", "Loading">>,
     <<"Loading", "Enriching">>, <<"Enriching", "Chunking">>,
     <<"Chunking", "Embedding">>, <<"Embedding", "Completed">>}

NextNode(s) == CHOOSE t \in Stages : <<s, t>> \in Edges

\* progress written by each node, in tenths (0.2, 0.4, 0.6, 0.8, 1.0)
NodeProgress(s) ==
    CASE s = "Downloading" -> 2
      [] s = "Loading"     -> 4
      [] s = "Enriching"   -> 6
      [] s = "Chunking"    -> 8
      [] s = "Embedding"   -> 10

\* the exception raised inside a node when its call fails
NodeError(s) ==
    CASE s = "Downloading" -> "download_from_drive failed"
      [] s = "Loading"     -> "loader.load failed"
      [] s = "Enriching"   -> "enrich_with_vision failed"
      [] s = "Chunking"    -> "split_documents failed"
      [] s = "Embedding"   -> "add_documents failed"

JobIds == DOMAIN jobs

\* "error": None of a job that has not failed
NoError == [job |-> 0, artifact |-> None, stage |-> None, cause |-> None]

\* an IndexingState as passed to the first app.ainvoke
InitialState(a) ==
    [file_id   |-> a,
     user_id   |-> Owner(a),
     stage     |-> "Pending",
     progress  |-> 0,
     file_path |-> None,
     documents |-> <<>>,
     chunks    |-> <<>>,
     error     |-> NoError,
     cancelled |-> FALSE,   \* the job row is marked cancelled
     added     |-> FALSE,   \* add_documents of the running embed step has written
     adds      |-> 0,       \* add_documents calls this job has made
     running   |-> TRUE]    \* a worker of the live process is executing the graph

----------------------------------------------------------------------------
(* Initial state *)

StoreIdle ==
    /\ lastOp = [op |-> None, user |-> None, arg |-> None]
    /\ result = <<>> /\ merged = <<>>
NotExtracted == [status |-> "none", list |-> <<>>]

NoResponse == [status |-> "none", answer |-> <<>>, citations |-> <<>>]

CiteIdle ==
    /\ answer = <<>> /\ source_docs = <<>>
    /\ citations = NotExtracted /\ response = NoResponse

ChatIdle == chat_history = <<>>

NoMedia == [type |-> None, units |-> <<>>, frames |-> <<>>]
NotProcessed == [status |-> "none", docs |-> <<>>]

MediaIdle == media = NoMedia /\ segments = NotProcessed /\ split = <<>>

\* useState(null)
NullUser == [name |-> None, plan |-> None]

\* the frontend is not loaded in a browser
AuthIdle ==
    /\ isAuthenticated = FALSE /\ user = NullUser /\ localStorage = None
    /\ effectRan = None /\ location = None

Init ==
    /\ jobs = <<>>
    /\ ckpt = <<>>
    /\ index = {}
    /\ nextId = 1
    /\ resumes = 0
    /\ resp = [artifact |-> None, status |-> None]
    /\ StoreIdle
    /\ CiteIdle
    /\ ChatIdle
    /\ MediaIdle
    /\ AuthIdle

----------------------------------------------------------------------------
(* Job submission: POST /index/file.  The endpoint is declared in the plan  *)
(* (indexing.py) without a listing; its admission rule follows the written  *)
(* specification: a persistent job table with a unique constraint that      *)
(* allows one non-terminal job per artifact, a second submit is rejected.   *)

\* the non-terminal rows of the job table for an artifact
ActiveJobs(a) == {j \in JobIds : jobs[j].file_id = a /\ jobs[j].stage \notin Terminal}

NoAdmissionCheck(a) == TRUE

\* the unique constraint admits a new active job for the artifact
HasNoActiveJob(a) == ActiveJobs(a) = {}

\* the unique constraint lets the row of job j become (or stay) active
MayActivate(j) == ActiveJobs(jobs[j].file_id) \subseteq {j}

\* an accepted submit of user u inserts the job row and hands the initial
\* state to a worker; a rejected one answers already-in-progress
SubmitAs(u, a) ==
    /\ IF HasNoActiveJob(a)
       THEN /\ Len(jobs) < MaxJobs
            /\ jobs' = Append(jobs, [InitialState(a) EXCEPT !.user_id = u])
            /\ ckpt' = Append(ckpt, None)
            /\ resp' = [artifact |-> a, status |-> "accepted"]
       ELSE /\ jobs' = jobs
            /\ ckpt' = ckpt
            /\ resp' = [artifact |-> a, status |-> "already_in_progress"]
    /\ UNCHANGED <<index, nextId, resumes, storeVars, citeVars, chatVars, mediaVars, authVars>>

\* the submit of the user the file belongs to
Submit(a) == SubmitAs(Owner(a), a)

\* cancel(jobId) marks the row of a job that is not terminal; the written
\* specification names the call, the plan declares no endpoint for it
Cancel(j) ==
    /\ jobs[j].stage \notin Terminal
    /\ ~jobs[j].cancelled
    /\ jobs' = [jobs EXCEPT ![j].cancelled = TRUE]
    /\ UNCHANGED <<ckpt, index, nextId, resumes, resp, storeVars, citeVars, chatVars, mediaVars, authVars>>

\* what the job status shows of an exception that left ainvoke: the cause,
\* wrapped with the job, the artifact and the stage that raised it
WrapErrorCauseOnly(j, st) ==
    [job |-> j, artifact |-> st.file_id, stage |-> None, cause |-> NodeError(st.stage)]

WrapError(j, st) ==
    [job |-> j, artifact |-> st.file_id, stage |-> st.stage, cause |-> NodeError(st.stage)]

----------------------------------------------------------------------------
(* One execution of the compiled graph: app.ainvoke *)

\* ainvoke starts the graph at its entry point
Start(j) ==
    /\ jobs[j].running
    /\ jobs[j].stage = "Pending"
    /\ jobs' = [jobs EXCEPT ![j].stage = NextNode("Pending")]
    /\ UNCHANGED <<ckpt, index, nextId, resumes, resp, storeVars, citeVars, chatVars, mediaVars, authVars>>

\* the state a node returns: {**state, <field>: <value>, "progress": p}
NodeOutput(st) ==
    LET s == st.stage
        out == CASE s = "Downloading" -> [st EXCEPT !.file_path = DownloadPath(st.file_id)]
                 [] s = "Loading"     -> [st EXCEPT !.documents = LoadDocs(st.file_id)]
                 [] s = "Enriching"   -> [st EXCEPT !.documents = EnrichDocs(st.documents)]
                 [] s = "Chunking"    -> [st EXCEPT !.chunks = SplitDocs(st.file_id, st.documents)]
                 [] s = "Embedding"   -> st
    IN [out EXCEPT !.progress = NodeProgress(s)]

\* Chroma(collection_name=f"user_{user_id}").add_documents(chunks): no ids are
\* passed, so the store gives every document a freshly generated id
AddDocumentsPositionalIds(coll, chunks, call) ==
    {[id |-> <<<<0, 0>>, o>>, collection |-> coll,
      source |-> chunks[o].source_id, ordinal |-> chunks[o].ordinal] : o \in DOMAIN chunks}

AddDocuments(coll, chunks, call) ==
    {[id |-> <<call, o>>, collection |-> coll,
      source |-> chunks[o].source_id, ordinal |-> chunks[o].ordinal] : o \in DOMAIN chunks}

\* embed_node, up to the return of add_documents
EmbedAdd(j) ==
    /\ jobs[j].running /\ ~jobs[j].added
    /\ jobs[j].stage = "Embedding"
    /\ index' = index \cup AddDocuments(CollectionName(jobs[j].user_id), jobs[j].chunks,
                                         <<j, jobs[j].adds>>)
    /\ jobs' = [jobs EXCEPT ![j].added = TRUE, ![j].adds = jobs[j].adds + 1]
    /\ UNCHANGED <<ckpt, nextId, resumes, resp, storeVars, citeVars, chatVars, mediaVars, authVars>>

\* a node returns: its output becomes the state, the checkpointer saves the
\* step, and only then the graph follows the edge to the next node (or END,
\* where ainvoke returns)
NodeReturn(j) ==
    /\ jobs[j].running
    /\ jobs[j].stage \in Nodes
    /\ jobs[j].stage = "Embedding" => jobs[j].added
    /\ LET t == NextNode(jobs[j].stage) IN
         jobs' = [jobs EXCEPT ![j] = [NodeOutput(jobs[j]) EXCEPT
                                          !.stage = t,
                                          !.added = FALSE,
                                          !.running = (t # "Completed")]]
    /\ ckpt' = [ckpt EXCEPT ![j] = jobs[j].stage]
    /\ UNCHANGED <<index, nextId, resumes, resp, storeVars, citeVars, chatVars, mediaVars, authVars>>

\* a node raises: the exception leaves ainvoke, nothing is saved for the step
NodeRaise(j) ==
    /\ jobs[j].running
    /\ jobs[j].stage \in Nodes
    /\ jobs' = [jobs EXCEPT ![j].stage = "Failed",
                            ![j].error = WrapError(j, jobs[j]),
                            ![j].added = FALSE,
                            ![j].running = FALSE]
    /\ UNCHANGED <<ckpt, index, nextId, resumes, resp, storeVars, citeVars, chatVars, mediaVars, authVars>>

\* the backend process is killed and started again: the workers are gone and
\* so is the ":memory:" database of the checkpointer; the job table and the
\* vector store are services outside the process and keep their content
CrashRestart ==
    /\ \E j \in JobIds : jobs[j].running
    /\ jobs' = [j \in JobIds |-> [jobs[j] EXCEPT !.running = FALSE, !.added = FALSE]]
    /\ ckpt' = [j \in JobIds |-> None]
    /\ UNCHANGED <<index, nextId, resumes, resp, storeVars, citeVars, chatVars, mediaVars, authVars>>

\* "If it fails, resume from checkpoint": app.ainvoke(result, config).
\* The call passes an input state (under a thread id the first call did not
\* use), so the graph starts a new execution at its entry point with that
\* input; a failed or killed run has returned no result, the input is the
\* state the job was submitted with.  Making the job active again is subject
\* to the unique constraint of the job table.
Resumable(j) ==
    /\ ~jobs[j].running
    /\ jobs[j].stage # "Completed"
    /\ resumes < MaxResumes

Resume(j) ==
    /\ Resumable(j)
    /\ MayActivate(j)
    /\ jobs' = [jobs EXCEPT ![j] = [InitialState(jobs[j].file_id) EXCEPT
                                          !.user_id = jobs[j].user_id,
                                          !.cancelled = jobs[j].cancelled,
                                          !.stage = NextNode("Pending"),
                                          !.adds = jobs[j].adds]]
    /\ resumes' = resumes + 1
    /\ UNCHANGED <<ckpt, index, nextId, resp, storeVars, citeVars, chatVars, mediaVars, authVars>>

Next ==
    \/ \E a \in Artifacts : Submit(a)
    \/ \E j \in JobIds : Start(j)
    \/ \E j \in JobIds : EmbedAdd(j)
    \/ \E j \in JobIds : NodeReturn(j)
    \/ \E j \in JobIds : NodeRaise(j)
    \/ \E j \in JobIds : Resume(j)
    \/ CrashRestart

Spec == Init /\ [][Next]_vars

\* uninterrupted executions of jobs that any user may have submitted
NextEmbed ==
    \/ \E u \in Users, a \in Artifacts : SubmitAs(u, a)
    \/ \E j \in JobIds : Start(j)
    \/ \E j \in JobIds : EmbedAdd(j)
    \/ \E j \in JobIds : NodeReturn(j)
    \/ \E j \in JobIds : NodeRaise(j)

SpecEmbed == Init /\ [][NextEmbed]_vars

----------------------------------------------------------------------------
(* EduverseVectorStore: calls made directly on the store of a user *)

\* the chunk list of an artifact, as the indexing workflow derives it
ChunksOf(a) == SplitDocs(a, EnrichDocs(LoadDocs(a)))

\* embedding of a chunk text and its similarity to a query embedding
Embedding(source, ordinal) == IF source = "f1" THEN ordinal ELSE ordinal + 1

Score(q, e) ==
    LET v == Embedding(e.source, e.ordinal)
    IN IF q >= v THEN MaxVec - (q - v) ELSE MaxVec - (v - q)

\* self.store.delete(filter={"source_id": file_id}) on the user's collection
DeleteFileAnyCollection(idx, u, file_id) == {e \in idx : e.source # file_id}

DeleteFile(idx, u, file_id) ==
    {e \in idx : ~(e.collection = CollectionName(u) /\ e.source = file_id)}

\* the documents a retriever of the user's store searches
SearchAllCollections(idx, u) == idx

Collection(idx, u) == {e \in idx : e.collection = CollectionName(u)}

\* the result lists a similarity search for q with limit k may return: the
\* k best-scoring documents, best first; the store fixes no order among
\* documents of equal score
RECURSIVE TopK(_, _, _)
TopK(C, q, k) ==
    IF k = 0 \/ C = {} THEN {<<>>}
    ELSE LET best == {e \in C : \A d \in C : Score(q, e) >= Score(q, d)}
         IN UNION {{<<e>> \o r : r \in TopK(C \ {e}, q, k - 1)} : e \in best}

SearchResults(idx, u, q, k) == TopK(Collection(idx, u), q, k)

\* EduverseVectorStore(u).add(chunks)
StoreAdd(u, a) ==
    /\ nextId <= MaxAdds
    /\ index' = index \cup AddDocuments(CollectionName(u), ChunksOf(a), <<0, nextId>>)
    /\ nextId' = nextId + 1
    /\ lastOp' = [op |-> "add", user |-> u, arg |-> a]
    /\ result' = <<>>
    /\ UNCHANGED <<merged, ingestVars, citeVars, chatVars, mediaVars, authVars>>

\* EduverseVectorStore(u).delete_file(file_id)
StoreDelete(u, a) ==
    /\ index' = DeleteFile(index, u, a)
    /\ lastOp' = [op |-> "delete", user |-> u, arg |-> a]
    /\ result' = <<>>
    /\ UNCHANGED <<merged, nextId, ingestVars, citeVars, chatVars, mediaVars, authVars>>

\* EduverseVectorStore(u).get_retriever(search_kwargs={"k": k}) asked for q
StoreSearch(u, q, k) ==
    /\ result' \in SearchResults(index, u, q, k)
    /\ lastOp' = [op |-> "search", user |-> u, arg |-> <<q, k>>]
    /\ UNCHANGED <<merged, index, nextId, ingestVars, citeVars, chatVars, mediaVars, authVars>>

NextStore ==
    \/ \E u \in Users, a \in Artifacts : StoreAdd(u, a)
    \/ \E u \in Users, a \in Artifacts : StoreDelete(u, a)
    \/ \E u \in Users, q \in 1..MaxVec, k \in 1..MaxK : StoreSearch(u, q, k)

SpecStore == Init /\ [][NextStore]_vars

----------------------------------------------------------------------------
(* Retrieval: base retriever (MMR), multi-query expansion, reranking *)

\* metadata of a stored chunk, in the fields of the fixed vector schema
Meta(e) ==
    [course_name     |-> IF e.source = "f1" THEN "ML 101" ELSE "DB 201",
     source_type     |-> IF e.source = "f1" THEN "pdf" ELSE "video",
     contains_visual |-> ~(e.source = "f1" /\ e.ordinal = 1)]

\* a filter gives, per metadata field, the values it admits: an equality
\* admits one value, "$in" the listed ones, a field not named admits all
AnyCourse == {"ML 101", "DB 201"}
AnyType == {"pdf", "video"}

Filters ==
    {[course_name |-> AnyCourse,  source_type |-> AnyType, contains_visual |-> BOOLEAN],
     [course_name |-> {"ML 101"}, source_type |-> AnyType, contains_visual |-> BOOLEAN],
     [course_name |-> AnyCourse,  source_type |-> {"video"}, contains_visual |-> {TRUE}],
     [course_name |-> {"ML 101"}, source_type |-> {"pdf", "video"}, contains_visual |-> {TRUE}]}

\* the store's "where": the predicates of a filter hold together ("$and")
Matches(md, f) ==
    /\ md.course_name \in f.course_name
    /\ md.source_type \in f.source_type
    /\ md.contains_visual \in f.contains_visual

\* the Document a retriever returns for a stored chunk: text and metadata
DocOf(e) == [page_content |-> <<e.source, e.ordinal>>, metadata |-> Meta(e)]

\* search_kwargs of the base retriever: k and fetch_k (fetch_k > k)
K == MaxK
FetchK == MaxK + 1

\* similarity of two stored chunks
DocSimilarity(d, e) ==
    LET v == Embedding(d.source, d.ordinal)
        w == Embedding(e.source, e.ordinal)
    IN IF v >= w THEN MaxVec - (v - w) ELSE MaxVec - (w - v)

MaxOf(S) == CHOOSE x \in S : \A y \in S : x >= y

Min(a, b) == IF a <= b THEN a ELSE b

\* maximal marginal relevance with lambda 1/2: the candidates come in order
\* of similarity; the most similar one is taken first, then repeatedly the
\* candidate with the best (similarity to the query - similarity to the
\* nearest document already taken), the earliest candidate on equal value
MMRValue(c, q, sel) ==
    Score(q, c) - (IF sel = <<>> THEN 0 ELSE MaxOf({DocSimilarity(c, sel[i]) : i \in DOMAIN sel}))

RECURSIVE MMRSelect(_, _, _, _, _)
MMRSelect(cands, q, k, taken, sel) ==
    LET free == DOMAIN cands \ taken
    IN IF Len(sel) = k \/ free = {} THEN sel
       ELSE LET best == CHOOSE i \in free :
                            \A j \in free :
                                \/ MMRValue(cands[i], q, sel) > MMRValue(cands[j], q, sel)
                                \/ /\ MMRValue(cands[i], q, sel) = MMRValue(cands[j], q, sel)
                                   /\ i <= j
            IN MMRSelect(cands, q, k, taken \cup {best}, Append(sel, cands[best]))

\* filtering after the search instead of inside it
BaseRetrievePostFilter(idx, u, q, f) ==
    {SelectSeq([i \in DOMAIN r |-> DocOf(r[i])], LAMBDA doc : Matches(doc.metadata, f)) :
        r \in {MMRSelect(c, q, K, {}, <<>>) : c \in TopK(Collection(idx, u), q, FetchK)}}

\* get_retriever(search_type="mmr", search_kwargs={"k", "fetch_k", "filter"})
\* asked for q: the filter restricts the documents the store searches
BaseRetrieve(idx, u, q, f) ==
    LET matching == {e \in Collection(idx, u) : Matches(Meta(e), f)}
    IN {[i \in DOMAIN r |-> DocOf(r[i])] :
           r \in {MMRSelect(c, q, K, {}, <<>>) : c \in TopK(matching, q, FetchK)}}

\* the documents of all generated queries, one list after the other
RECURSIVE RetrieveAll(_, _, _, _)
RetrieveAll(idx, u, qs, f) ==
    IF qs = <<>> THEN {<<>>}
    ELSE {r \o rest : r \in BaseRetrieve(idx, u, Head(qs), f),
                      rest \in RetrieveAll(idx, u, Tail(qs), f)}

\* MultiQueryRetriever.unique_union: a document equal to an earlier one of
\* the list is dropped
KeepAll(docs) == docs

UniqueUnion(docs) ==
    LET kept == SelectSeq([i \in DOMAIN docs |-> i],
                          LAMBDA i : \A j \in 1..(i - 1) : docs[j] # docs[i])
    IN [n \in DOMAIN kept |-> docs[kept[n]]]

\* CohereRerank(top_n): the top_n documents of the list in the order of a
\* relevance model of its own
Rerank(docs) ==
    LET n == Min(TopN, Len(docs))
    IN {[i \in 1..n |-> docs[o[i]]] :
           o \in {p \in [1..n -> DOMAIN docs] : \A i, j \in 1..n : i # j => p[i] # p[j]}}

\* the contents the stores can have after up to MaxAdds add calls; the
\* order of the calls only changes the generated ids, so the calls are
\* taken in one order of (user, file)
AddRank(c) == (IF c[1] = "u1" THEN 0 ELSE 2) + (IF c[2] = "f1" THEN 1 ELSE 2)

AddCalls(n) ==
    {s \in [1..n -> Users \X Artifacts] :
        \A i \in 1..(n - 1) : AddRank(s[i]) <= AddRank(s[i + 1])}

StoreContents ==
    UNION {{UNION {AddDocuments(CollectionName(s[i][1]), ChunksOf(s[i][2]), <<0, i>>) : i \in 1..n} :
               s \in AddCalls(n)} : n \in 0..MaxAdds}

QueryLists == UNION {[1..n -> 1..MaxVec] : n \in 1..MaxQueries}

\* a retrieval has been asked of final_retriever: the query expansion has
\* generated the queries, the base retriever was built with the filter
InitRetrieve ==
    /\ jobs = <<>> /\ ckpt = <<>> /\ nextId = 1 /\ resumes = 0
    /\ resp = [artifact |-> None, status |-> None]
    /\ index \in StoreContents
    /\ \E u \in Users, qs \in QueryLists, f \in Filters :
          lastOp = [op |-> "retrieving", user |-> u, arg |-> [queries |-> qs, filter |-> f]]
    /\ result = <<>> /\ merged = <<>>
    /\ CiteIdle /\ ChatIdle /\ MediaIdle /\ AuthIdle

\* final_retriever.aget_relevant_documents: the documents of every query
\* are merged, the reranker picks the final context
Retrieve ==
    /\ lastOp.op = "retrieving"
    /\ merged' \in {UniqueUnion(x) :
                        x \in RetrieveAll(index, lastOp.user, lastOp.arg.queries, lastOp.arg.filter)}
    /\ result' \in Rerank(merged')
    /\ lastOp' = [lastOp EXCEPT !.op = "retrieve"]
    /\ UNCHANGED <<index, nextId, ingestVars, citeVars, chatVars, mediaVars, authVars>>

NextRetrieve == Retrieve

SpecRetrieve == InitRetrieve /\ [][NextRetrieve]_vars

\* the indexing workflow together with the calls that manage its jobs and
\* artifacts from outside: cancel(jobId) and DELETE /index/{file_id}
NextOps ==
    \/ Next
    \/ \E j \in JobIds : Cancel(j)
    \/ \E u \in Users, a \in Artifacts : StoreDelete(u, a)

SpecOps == Init /\ [][NextOps]_vars

----------------------------------------------------------------------------
(* extract_citations(answer, source_docs) *)

Digits == {"0", "1", "2", "3"}

DigitValue(c) ==
    CASE c = "0" -> 0
      [] c = "1" -> 1
      [] c = "2" -> 2
      [] c = "3" -> 3

\* the sentence the prompt asks for when the context has no answer
NoInfoAnswer == <<"I don't have that information">>

\* pieces of text the generation model composes its answer from
Fragments ==
    {NoInfoAnswer, <<"x">>, <<"[", "0", "]">>, <<"[", "1", "]">>, <<"[", "2", "]">>, <<"[", "3", "]">>,
     <<"[", "0", "1", "]">>, <<"[", "x", "]">>, <<"[", "1">>, <<"2", "]">>}

RECURSIVE Concat(_)
Concat(fs) == IF fs = <<>> THEN <<>> ELSE Head(fs) \o Concat(Tail(fs))

Answers == {Concat(fs) : fs \in UNION {[1..n -> Fragments] : n \in 0..MaxFrags}}

\* the i-th document of a retrieved context
Doc(i) ==
    [file_name   |-> IF i % 2 = 1 THEN "lecture.pdf" ELSE "notes.pdf",
     page_number |-> i,
     page_content |-> <<"text", i>>]

\* first position at or after i of text that holds no digit
RECURSIVE DigitsEnd(_, _)
DigitsEnd(text, i) ==
    IF i <= Len(text) /\ text[i] \in Digits THEN DigitsEnd(text, i + 1) ELSE i

\* re.findall(r'\[(\d+)\]', answer): the digit strings of the matches, left
\* to right, matches not overlapping
RECURSIVE FindAllFrom(_, _)
FindAllFrom(text, i) ==
    IF i > Len(text) THEN <<>>
    ELSE IF text[i] = "["
         THEN LET j == DigitsEnd(text, i + 1)
              IN IF j > i + 1 /\ j <= Len(text) /\ text[j] = "]"
                 THEN <<SubSeq(text, i + 1, j - 1)>> \o FindAllFrom(text, j + 1)
                 ELSE FindAllFrom(text, i + 1)
         ELSE FindAllFrom(text, i + 1)

FindAll(text) == FindAllFrom(text, 1)

\* int(num_str)
RECURSIVE ParseInt(_)
ParseInt(ds) ==
    IF ds = <<>> THEN 0
    ELSE 10 * ParseInt(SubSeq(ds, 1, Len(ds) - 1)) + DigitValue(ds[Len(ds)])

Range(f) == {f[i] : i \in DOMAIN f}

\* the orders in which a Python set of these strings may be iterated
Orders(S) ==
    {o \in [1..Cardinality(S) -> S] : \A i, j \in DOMAIN o : i # j => o[i] # o[j]}

\* source_docs[num - 1] of Python: a negative index counts from the end
PyIndexInRange(docs, idx) == idx >= -Len(docs) /\ idx < Len(docs)
PyIndex(docs, idx) == IF idx >= 0 THEN docs[idx + 1] ELSE docs[Len(docs) + idx + 1]

\* the guard of the loop body: if num <= len(source_docs)
CitesDoc(num, docs) == num <= Len(docs)

\* doc.page_content[:200]
SnippetLen == 200

Snippet(text) == SubSeq(text, 1, IF Len(text) < SnippetLen THEN Len(text) ELSE SnippetLen)

\* the value extract_citations returns when the set of matched strings is
\* iterated in order o: the citation list, or the IndexError it raises
CitationsIn(o, docs) ==
    LET kept == SelectSeq(o, LAMBDA ds : CitesDoc(ParseInt(ds), docs))
    IN IF \E i \in DOMAIN kept : ~PyIndexInRange(docs, ParseInt(kept[i]) - 1)
       THEN [status |-> "IndexError", list |-> <<>>]
       ELSE [status |-> "returned",
             list   |-> [i \in DOMAIN kept |->
                            LET num == ParseInt(kept[i])
                                doc == PyIndex(docs, num - 1)
                            IN [number       |-> num,
                                file_name    |-> doc.file_name,
                                page_number  |-> doc.page_number,
                                text_snippet |-> Snippet(doc.page_content)]]]

ExtractCitations(text, docs) == {CitationsIn(o, docs) : o \in Orders(Range(FindAll(text)))}

\* the chain has returned result["answer"] and result["source_documents"]
InitCite ==
    /\ jobs = <<>> /\ ckpt = <<>> /\ index = {} /\ nextId = 1 /\ resumes = 0
    /\ resp = [artifact |-> None, status |-> None]
    /\ StoreIdle
    /\ answer \in Answers
    /\ source_docs \in {[i \in 1..n |-> Doc(i)] : n \in 0..MaxDocs}
    /\ citations = NotExtracted
    /\ response = NoResponse
    /\ ChatIdle /\ MediaIdle /\ AuthIdle

\* citations = extract_citations(result["answer"], result["source_documents"])
Extract ==
    /\ citations = NotExtracted
    /\ citations' \in ExtractCitations(answer, source_docs)
    /\ UNCHANGED <<answer, source_docs, response, index, nextId, ingestVars, storeVars,
                 chatVars, mediaVars, authVars>>

\* "answer": result["answer"]
StrippedAnswer(text) == SelectSeq(text, LAMBDA c : c \notin {"[", "]"})

ReturnedAnswer(text) == text

\* return {"answer": result["answer"], "citations": citations}; an exception
\* raised by extract_citations leaves the endpoint instead
Respond ==
    /\ citations # NotExtracted
    /\ response = NoResponse
    /\ response' = IF citations.status = "returned"
                   THEN [status    |-> "returned",
                         answer    |-> ReturnedAnswer(answer),
                         citations |-> citations.list]
                   ELSE [status |-> "raised", answer |-> <<>>, citations |-> <<>>]
    /\ UNCHANGED <<answer, source_docs, citations, index, nextId, ingestVars, storeVars,
                 chatVars, mediaVars, authVars>>

NextCite == Extract \/ Respond

SpecCite == InitCite /\ [][NextCite]_vars

----------------------------------------------------------------------------
(* Multimodal processing: process_pdf, process_video, and the splitter *)

\* Texts and images are triples <<kind, a, b>> that tell them apart.
\* PDF files: pages as PyPDFLoader loads them, with the images
\* extract_images_from_page finds on each (page_num counts from 0)
Page(page_num, n) ==
    [page_content |-> <<"page text", page_num, 0>>,
     metadata     |-> [source |-> "file.pdf", page |-> page_num],
     images       |-> [m \in 1..n |-> <<"image", page_num, m>>]]

PdfFiles ==
    {[type   |-> "pdf",
      units  |-> [i \in DOMAIN counts |-> Page(i - 1, counts[i])],
      frames |-> <<>>] :
        counts \in UNION {[1..n -> 0..MaxImages] : n \in 1..MaxPages}}

\* video files: the segments groq_whisper transcribes (one after the other,
\* each with start < end, a segment may start where the one before ends)
\* and the key frames extract_key_frames finds, in order of time
Transcripts ==
    {t \in UNION {[1..n -> (0..MaxTime) \X (0..MaxTime)] : n \in 1..MaxSegs} :
        /\ \A i \in DOMAIN t : t[i][1] < t[i][2]
        /\ \A i \in 1..(Len(t) - 1) : t[i][2] <= t[i + 1][1]}

AudioSeg(iv, i) == [start |-> iv[1], end |-> iv[2], text |-> <<"speech", i, 0>>]

FrameLists ==
    {f \in UNION {[1..n -> 0..MaxTime] : n \in 0..(MaxTime + 1)} :
        \A i \in 1..(Len(f) - 1) : f[i] < f[i + 1]}

Frame(t) == [timestamp |-> t, image |-> <<"frame", t, 0>>]

VideoFiles ==
    {[type   |-> "video",
      units  |-> [i \in DOMAIN t |-> AudioSeg(t[i], i)],
      frames |-> [i \in DOMAIN f |-> Frame(f[i])]] :
        t \in Transcripts, f \in FrameLists}

\* groq_vision_llm(image=img, prompt=...)
Explain(img) == <<"explanation of " \o img[1], img[2], img[3]>>

MoreThanOne(items) == Len(items) > 1

\* len(...) > 0
NotEmpty(items) == Len(items) > 0

\* the document process_pdf makes of the page with index page_num
PdfDoc(page, page_num) ==
    LET visual_explanations == [m \in DOMAIN page.images |-> Explain(page.images[m])]
    IN [page_content |-> <<page.page_content, <<"[VISUALS]", 0, 0>>>> \o visual_explanations,
        metadata     |-> [source          |-> page.metadata.source,
                          page            |-> page.metadata.page,
                          page_number     |-> page_num + 1,
                          contains_visual |-> NotEmpty(page.images)]]

\* process_pdf: for page_num, page in enumerate(pages)
ProcessPdfDocs(pages) == [i \in DOMAIN pages |-> PdfDoc(pages[i], i - 1)]

\* frame_analyses
FrameAnalyses(frames) ==
    [i \in DOMAIN frames |-> [timestamp |-> frames[i].timestamp,
                               content   |-> Explain(frames[i].image)]]

VisualsFrom(audio_seg, frame_analyses) ==
    SelectSeq(frame_analyses, LAMBDA f : audio_seg.start <= f.timestamp)

\* relevant_visuals: the analyses of the frames in the time window of the
\* audio segment, both ends included
RelevantVisuals(audio_seg, frame_analyses) ==
    SelectSeq(frame_analyses,
              LAMBDA f : audio_seg.start <= f.timestamp /\ f.timestamp <= audio_seg.end)

\* the document process_video makes of an audio segment
VideoDoc(audio_seg, frame_analyses) ==
    LET relevant_visuals == RelevantVisuals(audio_seg, frame_analyses)
    IN [page_content |->
            <<<<"[AUDIO]", 0, 0>>, audio_seg.text>> \o
            (IF relevant_visuals # <<>>
             THEN <<<<"[VISUAL]", 0, 0>>>> \o [i \in DOMAIN relevant_visuals |-> relevant_visuals[i].content]
             ELSE <<>>),
        metadata |-> [start_time      |-> audio_seg.start,
                      end_time        |-> audio_seg.end,
                      contains_visual |-> NotEmpty(relevant_visuals)]]

\* process_video: for audio_seg in transcript
ProcessVideoDocs(transcript, frames) ==
    [i \in DOMAIN transcript |-> VideoDoc(transcript[i], FrameAnalyses(frames))]

\* a file has been handed to its processor
InitMedia ==
    /\ jobs = <<>> /\ ckpt = <<>> /\ index = {} /\ nextId = 1 /\ resumes = 0
    /\ resp = [artifact |-> None, status |-> None]
    /\ StoreIdle /\ CiteIdle /\ ChatIdle /\ AuthIdle
    /\ media \in PdfFiles \cup VideoFiles
    /\ segments = NotProcessed
    /\ split = <<>>

\* process_pdf(file_path): returns, or a vision call raises
ProcessPdf ==
    /\ media.type = "pdf"
    /\ segments = NotProcessed
    /\ \/ segments' = [status |-> "returned", docs |-> ProcessPdfDocs(media.units)]
       \/ /\ \E i \in DOMAIN media.units : media.units[i].images # <<>>
          /\ segments' = [status |-> "raised", docs |-> <<>>]
    /\ UNCHANGED <<media, split, index, nextId, ingestVars, storeVars, citeVars, chatVars, authVars>>

\* process_video(file_path): returns, or the speech call or a vision call
\* raises
ProcessVideo ==
    /\ media.type = "video"
    /\ segments = NotProcessed
    /\ \/ segments' = [status |-> "returned", docs |-> ProcessVideoDocs(media.units, media.frames)]
       \/ segments' = [status |-> "raised", docs |-> <<>>]
    /\ UNCHANGED <<media, split, index, nextId, ingestVars, storeVars, citeVars, chatVars, authVars>>

\* number of chunks the splitter cuts a document into: the longer the text
\* (the more explanations were merged in), the more chunks
PieceCount(doc) == 1 + (Len(doc.page_content) \div 4)

\* RecursiveCharacterTextSplitter.split_documents(documents): every chunk
\* of a document gets a copy of that document's metadata, nothing is added
SplitDocuments(docs) ==
    Concat([i \in DOMAIN docs |->
               [k \in 1..PieceCount(docs[i]) |->
                   [page_content |-> <<docs[i].page_content, k>>,
                    metadata     |-> docs[i].metadata]]])

\* chunk_node on the documents of the processor
Split ==
    /\ segments.status = "returned"
    /\ split = <<>>
    /\ split' = SplitDocuments(segments.docs)
    /\ UNCHANGED <<media, segments, index, nextId, ingestVars, storeVars, citeVars, chatVars, authVars>>

NextMedia == ProcessPdf \/ ProcessVideo \/ Split

SpecMedia == InitMedia /\ [][NextMedia]_vars

----------------------------------------------------------------------------
(* The conversational chain and its memory *)

Questions == {"q1", "q2", "q3"}
ChainAnswers == {"a1", "a2"}

\* chain({"question": q}) with memory=ConversationBufferMemory(...): after
\* the answer is generated the memory saves the turn at the end of its
\* buffer; the buffer memory drops nothing
SaveContext(buffer, q, a) == Append(buffer, [question |-> q, answer |-> a])

Ask(q, a) ==
    /\ Len(chat_history) < MaxAsks
    /\ chat_history' = SaveContext(chat_history, q, a)
    /\ UNCHANGED <<index, nextId, ingestVars, storeVars, citeVars, mediaVars, authVars>>

NextChat == \E q \in Questions, a \in ChainAnswers : Ask(q, a)

SpecChat == Init /\ [][NextChat]_vars

----------------------------------------------------------------------------
(* The frontend: AuthProvider and the routes of App.jsx *)

\* the subjects the dashboard page links to
SubjectIds == {"cs201", "cs304", "cs450", "des101"}

SubjectPath(subjectId, page) == "/dashboard/subjects/" \o subjectId \o page

\* paths with a <Route> of their own that renders a dashboard page
DashboardPaths ==
    {"/dashboard", "/dashboard/subjects",
     "/dashboard/chat-history", "/dashboard/api-settings", "/dashboard/profile"}
    \cup {SubjectPath(id, page) : id \in SubjectIds, page \in {"/materials", "/chat", "/quizzes"}}

\* paths a link, a navigate() call or the address bar may ask for; the
\* sidebar's "/dashboard/files" has no route and falls to path="*"
Paths ==
    {"/", "/auth/login", "/dashboard/files"} \cup DashboardPaths
    \cup {SubjectPath(id, "") : id \in SubjectIds}

\* <Routes>: "/dashboard/subjects/:subjectId" is replaced by its
\* "materials" page, every other path stays; no route asks for a login
Route(path) ==
    IF \E id \in SubjectIds : path = SubjectPath(id, "")
    THEN path \o "/materials"
    ELSE path

StudentAccount == [name |-> "Student Account", plan |-> "Pro Plan"]

BoolStr(b) == IF b THEN "true" ELSE "false"

\* the effect has run for the value isAuthenticated has now
EffectFlushed == effectRan = BoolStr(isAuthenticated)

\* useState initialisers: isAuthenticated from the stored key, user null
Mounted(path) ==
    /\ isAuthenticated' = (localStorage = "true")
    /\ user' = NullUser
    /\ effectRan' = None
    /\ location' = Route(path)

\* the app has been opened at some path, with or without the stored key
InitAuth ==
    /\ jobs = <<>> /\ ckpt = <<>> /\ index = {} /\ nextId = 1 /\ resumes = 0
    /\ resp = [artifact |-> None, status |-> None]
    /\ StoreIdle /\ CiteIdle /\ ChatIdle /\ MediaIdle
    /\ localStorage \in {None, "true"}
    /\ isAuthenticated = (localStorage = "true")
    /\ user = NullUser
    /\ effectRan = None
    /\ location \in {Route(path) : path \in Paths}

\* the page is reloaded, or opened again at a path: the component state is
\* lost, the stored key stays
Load(path) ==
    /\ Mounted(path)
    /\ UNCHANGED <<localStorage, index, nextId, ingestVars, storeVars, citeVars, chatVars, mediaVars>>

EffectAlwaysSets(auth) ==
    [user           |-> IF auth THEN StudentAccount ELSE NullUser,
     classmind_auth |-> "true"]

\* body of the effect: what it sets the user and the stored key to
Effect(auth) ==
    [user           |-> IF auth THEN StudentAccount ELSE NullUser,
     classmind_auth |-> IF auth THEN "true" ELSE None]

\* useEffect(..., [isAuthenticated]): runs after mount and after every
\* render in which isAuthenticated has changed
RunEffect ==
    /\ ~EffectFlushed
    /\ user' = Effect(isAuthenticated).user
    /\ localStorage' = Effect(isAuthenticated).classmind_auth
    /\ effectRan' = BoolStr(isAuthenticated)
    /\ UNCHANGED <<isAuthenticated, location, index, nextId, ingestVars, storeVars, citeVars, chatVars, mediaVars>>

\* Event handlers run on a rendered page; React flushes a render's effects
\* before the next event is handled.

\* login = () => setIsAuthenticated(true); no page calls it
Login ==
    /\ EffectFlushed
    /\ isAuthenticated' = TRUE
    /\ UNCHANGED <<user, localStorage, effectRan, location, index, nextId, ingestVars, storeVars, citeVars, chatVars, mediaVars>>

\* logout = () => setIsAuthenticated(false)
Logout ==
    /\ EffectFlushed
    /\ isAuthenticated' = FALSE
    /\ UNCHANGED <<user, localStorage, effectRan, location, index, nextId, ingestVars, storeVars, citeVars, chatVars, mediaVars>>

\* SignupPage.handleLogin, the button of the login page
HandleLogin ==
    /\ EffectFlushed
    /\ location = "/auth/login"
    /\ location' = Route("/dashboard")
    /\ UNCHANGED <<isAuthenticated, user, localStorage, effectRan, index, nextId, ingestVars, storeVars, citeVars, chatVars, mediaVars>>

\* DashboardLayout.handleLogout: logout(); navigate('/')
HandleLogout ==
    /\ EffectFlushed
    /\ isAuthenticated' = FALSE
    /\ location' = Route("/")
    /\ UNCHANGED <<user, localStorage, effectRan, index, nextId, ingestVars, storeVars, citeVars, chatVars, mediaVars>>

\* a <Link> or <NavLink> is followed
Navigate(path) ==
    /\ EffectFlushed
    /\ location' = Route(path)
    /\ UNCHANGED <<isAuthenticated, user, localStorage, effectRan, index, nextId, ingestVars, storeVars, citeVars, chatVars, mediaVars>>

NextAuth ==
    \/ \E path \in Paths : Load(path)
    \/ RunEffect
    \/ Login
    \/ Logout
    \/ HandleLogin
    \/ HandleLogout
    \/ \E path \in Paths : Navigate(path)

SpecAuth == InitAuth /\ [][NextAuth]_vars

----------------------------------------------------------------------------
(* Properties of the indexing workflow *)

StageChain ==
    <<"Pending", "Downloading", "Loading", "Enriching", "Chunking", "Embedding", "Completed">>

ChainStep(s, t) == \E i \in 1..(Len(StageChain) - 1) : StageChain[i] = s /\ StageChain[i + 1] = t

\* the job starts a new execution in this step (a resume call)
Resumed(j) == resumes' = resumes + 1 /\ jobs'[j].running /\ ~jobs[j].running

\* C1: within one execution of the graph the stage of a job only moves one
\* step forward along Pending, Downloading, Loading, Enriching, Chunking,
\* Embedding, Completed, or from a non-terminal stage to Failed, and a job
\* that becomes Failed carries the error that was raised.
StageFollowsChain ==
    [][\A j \in DOMAIN jobs :
          (jobs'[j].stage # jobs[j].stage /\ ~Resumed(j)) =>
              \/ ChainStep(jobs[j].stage, jobs'[j].stage)
              \/ /\ jobs[j].stage \notin Terminal
                 /\ jobs'[j].stage = "Failed"
                 /\ jobs'[j].error # NoError]_vars

StageChainWitness ==
    \E j, k \in DOMAIN jobs :
        /\ jobs[j].stage = "Completed" /\ jobs[j].progress = 10
        /\ jobs[k].stage = "Failed" /\ jobs[k].error.cause = NodeError("Enriching")

\* the step saved for a job that is executing stage t is the stage before t
WriteAheadOrder ==
    \A j \in DOMAIN jobs :
        (jobs[j].running /\ jobs[j].stage \in Nodes \ {"Downloading"}) =>
            (ckpt[j] # None /\ ChainStep(ckpt[j], jobs[j].stage))

CheckpointsSurvive == \A j \in DOMAIN jobs : ckpt[j] # None => ckpt'[j] # None

\* C2: a stage begins only after the checkpoint of the stage before it is
\* saved, and a checkpoint that was saved stays readable, also after the
\* process is killed and restarted.
WriteAheadCheckpointing == [](WriteAheadOrder) /\ [][CheckpointsSurvive]_vars

\* C3: resuming a job that has a saved checkpoint enters the stage right
\* after the checkpointed one.
ResumeAfterLastCheckpoint ==
    [][\A j \in DOMAIN jobs :
          (Resumed(j) /\ ckpt[j] # None) => ChainStep(ckpt[j], jobs'[j].stage)]_vars

\* index entries that stem from artifact a
EntriesOf(a) == {e \in index : e.source = a}

JobsOf(a) == {j \in DOMAIN jobs : jobs[j].file_id = a}

\* C4: however often the embed step of a job runs, the index holds one entry
\* per chunk (collection, source, ordinal), never two.
EmbeddingIdempotent ==
    \A a \in Artifacts :
        Cardinality(JobsOf(a)) = 1 =>
            \A e1, e2 \in EntriesOf(a) :
                (e1.collection = e2.collection /\ e1.ordinal = e2.ordinal) => e1 = e2

\* the chunks an uninterrupted run leaves in the index
UninterruptedChunks(a) == {[source |-> a, ordinal |-> o] : o \in 1..ChunkCount(a)}

\* C5: when a resumed job is Completed, the chunks of its artifact in the
\* index are those of an uninterrupted run: the same chunks, each once.
ResumedRunSameChunks ==
    \A j \in DOMAIN jobs :
        (jobs[j].stage = "Completed" /\ JobsOf(jobs[j].file_id) = {j}) =>
            /\ {[source |-> e.source, ordinal |-> e.ordinal] : e \in EntriesOf(jobs[j].file_id)}
                   = UninterruptedChunks(jobs[j].file_id)
            /\ Cardinality(EntriesOf(jobs[j].file_id)) = ChunkCount(jobs[j].file_id)

AtMostOneActive == \A a \in Artifacts : Cardinality(ActiveJobs(a)) <= 1

SubmitOutcome ==
    /\ (resp' # resp /\ resp'.status = "already_in_progress") =>
           (ActiveJobs(resp'.artifact) # {} /\ jobs' = jobs)
    /\ Len(jobs') > Len(jobs) =>
           /\ ActiveJobs(jobs'[Len(jobs')].file_id) = {}
           /\ resp' = [artifact |-> jobs'[Len(jobs')].file_id, status |-> "accepted"]
           /\ Len(jobs') = Len(jobs) + 1

\* C6: every artifact has at most one job in a non-terminal stage; a submit
\* for an artifact with a non-terminal job answers already-in-progress and
\* creates no job, and a job is only created for an artifact without one.
OneActiveJobPerArtifact == [](AtMostOneActive) /\ [][SubmitOutcome]_vars

OneActiveJobWitness ==
    /\ resp = [artifact |-> "f1", status |-> "already_in_progress"]
    /\ \E j \in DOMAIN jobs : jobs[j].file_id = "f1" /\ jobs[j].stage = "Enriching" /\ ~jobs[j].running
    /\ \E j \in DOMAIN jobs : jobs[j].file_id = "f2" /\ jobs[j].stage = "Completed"

\* C7: the progress of a job stays within 0..1 and never decreases, also
\* across a failure and a resume.
ProgressMonotone ==
    [][\A j \in DOMAIN jobs :
          jobs'[j].progress \in 0..10 /\ jobs'[j].progress >= jobs[j].progress]_vars

\* the job whose add_documents call wrote index entry e
WriterOf(e) == e.id[1][1]

\* C13: once a job is marked cancelled it starts no further stage, the
\* stage in flight leaves no checkpoint and no entry in the vector index,
\* and the job does not become Completed.
CancelledJobStops ==
    [][\A j \in DOMAIN jobs :
          jobs[j].cancelled =>
              /\ jobs'[j].stage = jobs[j].stage \/ jobs'[j].stage \notin Nodes \cup {"Completed"}
              /\ ckpt'[j] \in {ckpt[j], None}
              /\ \A e \in index' \ index : WriterOf(e) # j]_vars

\* C14: when the vision call for one document fails, the Enriching stage
\* still completes with one segment per loaded document and the job does
\* not become Failed: a job leaves Enriching only to Chunking.
EnrichingSurvivesUnitFailure ==
    [][\A j \in DOMAIN jobs :
          (jobs[j].stage = "Enriching" /\ jobs'[j].stage # "Enriching") =>
              /\ jobs'[j].stage = "Chunking"
              /\ Len(jobs'[j].documents) = PageCount(jobs[j].file_id)]_vars

\* C15: when the call of a stage fails the job becomes Failed, its status
\* shows the stage that failed and the cause together with the artifact and
\* the job, and the failing step writes no checkpoint.
FatalStageFailure ==
    [][\A j \in DOMAIN jobs :
          (jobs'[j].stage = "Failed" /\ jobs[j].stage # "Failed") =>
              /\ jobs[j].stage \in Nodes
              /\ jobs'[j].error.stage = jobs[j].stage
              /\ jobs'[j].error.cause = NodeError(jobs[j].stage)
              /\ jobs'[j].error.artifact = jobs[j].file_id
              /\ jobs'[j].error.job = j
              /\ ckpt' = ckpt]_vars

FatalStageWitness ==
    \E j \in DOMAIN jobs :
        /\ jobs[j].stage = "Failed"
        /\ jobs[j].error = [job |-> j, artifact |-> "f1", stage |-> "Loading",
                            cause |-> NodeError("Loading")]
        /\ ckpt[j] = "Downloading"

\* C16: a resume call for a job whose checkpoint is gone does not execute
\* the job again, neither from the lost position nor from the start: the
\* job ends in a Corruption outcome of its own.
MissingCheckpointIsCorruption ==
    [][\A j \in DOMAIN jobs :
          (/\ resumes' = resumes + 1
           /\ jobs'[j] # jobs[j]
           /\ jobs[j].progress > 0
           /\ ckpt[j] = None) =>
              (jobs'[j].stage = "Corruption" /\ ~jobs'[j].running)]_vars

\* C17: a model call that keeps failing in Enriching or Embedding fails
\* only the unit it was made for, never the job; only a failing download,
\* load or split makes a job Failed.
ModelCallFailsUnitOnly ==
    \A j \in DOMAIN jobs :
        jobs[j].stage = "Failed" =>
            jobs[j].error.stage \notin {"Enriching", "Embedding"}

\* C18: after delete_file(id) on the store of a user has returned, that
\* store holds no chunk with source id, whatever ingestion jobs for the
\* artifact do before, during or after the call.
DeleteCascades ==
    lastOp.op = "delete" =>
        \A e \in index :
            ~(e.collection = CollectionName(lastOp.user) /\ e.source = lastOp.arg)

\* the index entries written by job j
WrittenBy(j) == {e \in index : WriterOf(e) = j}

\* C19: jobs of different artifacts that embed concurrently, for the same
\* or for different users, keep their data apart: no two index entries
\* share an id, every entry is in the collection of the user of the job
\* that wrote it and carries that job's source id and the chunk's ordinal,
\* and when a job is Completed the entries it wrote are exactly its chunks.
EmbeddingsKeepApart ==
    /\ \A e1, e2 \in index : e1.id = e2.id => e1 = e2
    /\ \A e \in index :
          /\ WriterOf(e) \in DOMAIN jobs
          /\ e.collection = CollectionName(jobs[WriterOf(e)].user_id)
          /\ e.source = jobs[WriterOf(e)].file_id
          /\ e.ordinal = e.id[2]
    /\ \A j \in DOMAIN jobs :
          jobs[j].stage = "Completed" =>
              /\ Cardinality(WrittenBy(j)) = Len(jobs[j].chunks)
              /\ {e.ordinal : e \in WrittenBy(j)} = DOMAIN jobs[j].chunks

EmbeddingsKeepApartWitness ==
    /\ Len(jobs) = 2
    /\ jobs[1].user_id = jobs[2].user_id
    /\ jobs[1].file_id # jobs[2].file_id
    /\ jobs[1].stage = "Embedding" /\ jobs[1].added
    /\ jobs[2].stage = "Completed"
    /\ Cardinality(index) = ChunkCount("f1") + ChunkCount("f2")

----------------------------------------------------------------------------
(* Properties of the vector store *)

\* C8: delete_file(id) on the store of user u removes every chunk of u with
\* source id, and leaves every chunk with another source and every chunk of
\* every other user's collection as it was.
DeleteBySourceFrame ==
    [][lastOp'.op = "delete" =>
          LET u == lastOp'.user
              id == lastOp'.arg
          IN /\ index' \subseteq index
             /\ \A e \in index' : ~(e.collection = CollectionName(u) /\ e.source = id)
             /\ \A e \in index : e.source # id => e \in index'
             /\ \A e \in index : e.collection # CollectionName(u) => e \in index']_vars

DeleteBySourceWitness ==
    /\ lastOp = [op |-> "delete", user |-> "u1", arg |-> "f1"]
    /\ nextId = 4
    /\ {<<e.collection, e.source>> : e \in index}
           = {<<CollectionName("u1"), "f2">>, <<CollectionName("u2"), "f1">>}

ResultsFromOwnNamespace ==
    lastOp.op = "search" =>
        \A i \in DOMAIN result :
            result[i] \in index /\ result[i].collection = CollectionName(lastOp.user)

OthersDoNotAffectSearch ==
    \A u \in Users :
        (lastOp'.user # u /\ index' # index) =>
            \A q \in 1..MaxVec, k \in 1..MaxK :
                SearchResults(index', u, q, k) = SearchResults(index, u, q, k)

\* C9: a search for user A returns only chunks of A's own collection, and
\* the results a search for A can return are not changed by any add, delete
\* or search of another user.
NamespaceIsolation == [](ResultsFromOwnNamespace) /\ [][OthersDoNotAffectSearch]_vars

NamespaceIsolationWitness ==
    /\ lastOp.op = "search"
    /\ Len(result) >= 1
    /\ \E e \in index :
          /\ e.collection # CollectionName(lastOp.user)
          /\ Score(lastOp.arg[1], e) > Score(lastOp.arg[1], result[1])

\* the chunks of the user's collection that satisfy the filter of the call
MatchingChunks == {e \in Collection(index, lastOp.user) : Matches(Meta(e), lastOp.arg.filter)}

Injective(seq) == \A i, j \in DOMAIN seq : i # j => seq[i] # seq[j]

\* the best similarity a merged document received from the queries
BestScore(doc) ==
    MaxOf({Score(lastOp.arg.queries[i],
                 [source |-> doc.page_content[1], ordinal |-> doc.page_content[2]]) :
              i \in DOMAIN lastOp.arg.queries})

SearchOrdered ==
    lastOp.op = "search" =>
        /\ Len(result) <= lastOp.arg[2]
        /\ \A i, j \in DOMAIN result :
              i < j =>
                  \/ Score(lastOp.arg[1], result[i]) > Score(lastOp.arg[1], result[j])
                  \/ /\ Score(lastOp.arg[1], result[i]) = Score(lastOp.arg[1], result[j])
                     /\ result[i].ordinal <= result[j].ordinal

----------------------------------------------------------------------------
(* Properties of citation extraction *)

\* C10: every entry of the returned citation list has a number n in 1..k,
\* k the number of source documents, and shows the n-th source document; a
\* bracketed number outside 1..k (0, or above k) gives no entry.
CitationsResolveInContext ==
    citations.status = "returned" =>
        \A i \in DOMAIN citations.list :
            LET c == citations.list[i]
            IN /\ c.number \in 1..Len(source_docs)
               /\ c.page_number = source_docs[c.number].page_number
               /\ c.file_name = source_docs[c.number].file_name
               /\ c.text_snippet = Snippet(source_docs[c.number].page_content)

\* a bracketed number of the answer that names no source document
Hallucinated(text, docs) ==
    {ds \in Range(FindAll(text)) : ParseInt(ds) \notin 1..Len(docs)}

\* C11: the answer the endpoint returns is the text the generation model
\* produced, character for character, also when it holds bracketed numbers
\* that name no source document; and handling the query changes neither
\* that text nor the list of retrieved source documents.
AnswerReturnedUnchanged ==
    /\ [](response.status = "returned" => response.answer = answer)
    /\ [][answer' = answer /\ source_docs' = source_docs]_vars

AnswerReturnedWitness ==
    /\ response.status = "returned"
    /\ Len(source_docs) = 2
    /\ response.citations # <<>>
    /\ Hallucinated(response.answer, source_docs) # {}

\* C12: when the retrieved context is empty the endpoint still returns: the
\* answer is the "I don't have that information" sentence, it holds no
\* bracketed citation, and the citation list is empty.
EmptyContextAnswer ==
    (source_docs = <<>> /\ response # NoResponse) =>
        /\ response.status = "returned"
        /\ response.answer = NoInfoAnswer
        /\ FindAll(response.answer) = <<>>
        /\ response.citations = <<>>

----------------------------------------------------------------------------
(* Properties of multimodal processing *)

\* the explanations of visuals that stand in the text of a document
ExplanationsIn(doc) ==
    {x \in Range(doc.page_content) : x \in {Explain(media.frames[i].image) : i \in DOMAIN media.frames}}

\* C24: process_video returns one segment per transcribed audio interval,
\* with that interval as its time range; the description of a frame stands
\* in the text of a segment exactly when the frame's timestamp lies in the
\* segment's range [start, end], and contains_visual of a segment is true
\* exactly when some frame's timestamp lies in its range.
VideoSegmentsMerged ==
    (media.type = "video" /\ segments.status = "returned") =>
        /\ Len(segments.docs) = Len(media.units)
        /\ \A i \in DOMAIN segments.docs :
              LET doc == segments.docs[i]
                  inside == {n \in DOMAIN media.frames :
                                /\ media.units[i].start <= media.frames[n].timestamp
                                /\ media.frames[n].timestamp <= media.units[i].end}
              IN /\ doc.metadata.start_time = media.units[i].start
                 /\ doc.metadata.end_time = media.units[i].end
                 /\ ExplanationsIn(doc) = {Explain(media.frames[n].image) : n \in inside}
                 /\ doc.metadata.contains_visual <=> (inside # {})

VideoSegmentsWitness ==
    /\ media.type = "video" /\ segments.status = "returned"
    /\ Len(segments.docs) = 2
    /\ segments.docs[1].metadata.contains_visual
    /\ ~segments.docs[2].metadata.contains_visual
    /\ \E n \in DOMAIN media.frames : media.frames[n].timestamp > media.units[2].end

\* the explanations of images that stand in the text of a PDF document
ImageExplanationsIn(doc) ==
    {x \in Range(doc.page_content) :
        \E i \in DOMAIN media.units : x \in {Explain(img) : img \in Range(media.units[i].images)}}

\* C25: process_pdf returns one segment per page, in page order; a page's
\* contains_visual is true exactly when the page has an image, and the
\* explanations of a page's images stand in the text of that page's
\* segment and of no other.
PdfSegmentsPerPage ==
    (media.type = "pdf" /\ segments.status = "returned") =>
        /\ Len(segments.docs) = Len(media.units)
        /\ \A i \in DOMAIN segments.docs :
              LET doc == segments.docs[i]
                  page == media.units[i]
              IN /\ doc.metadata.page_number = i
                 /\ doc.page_content[1] = page.page_content
                 /\ doc.metadata.contains_visual <=> (page.images # <<>>)
                 /\ ImageExplanationsIn(doc) = {Explain(img) : img \in Range(page.images)}

PdfSegmentsWitness ==
    /\ media.type = "pdf" /\ segments.status = "returned"
    /\ Len(segments.docs) = 2
    /\ ~segments.docs[1].metadata.contains_visual
    /\ segments.docs[2].metadata.contains_visual
    /\ Explain(media.units[2].images[1]) \in Range(segments.docs[2].page_content)

\* the document a chunk was cut from
ParentOf(chunk) == CHOOSE doc \in Range(segments.docs) : doc.page_content = chunk.page_content[1]

\* C27: every chunk has all metadata of the segment it was cut from and an
\* ordinal besides, and no two chunks of the artifact have the same
\* ordinal.
ChunksCarryOrdinal ==
    /\ \A n \in DOMAIN split :
          /\ \A field \in DOMAIN ParentOf(split[n]).metadata :
                /\ field \in DOMAIN split[n].metadata
                /\ split[n].metadata[field] = ParentOf(split[n]).metadata[field]
          /\ "ordinal" \in DOMAIN split[n].metadata
    /\ \A n, k \in DOMAIN split :
          n # k => split[n].metadata.ordinal # split[k].metadata.ordinal

\* C29: the description of a video frame stands in the text of at most one
\* segment, also when the frame's timestamp is the end of one segment and
\* the start of the next.
FrameInOneSegment ==
    (media.type = "video" /\ segments.status = "returned") =>
        \A n \in DOMAIN media.frames :
            Cardinality({i \in DOMAIN segments.docs :
                            Explain(media.frames[n].image) \in Range(segments.docs[i].page_content)}) <= 1

----------------------------------------------------------------------------
(* Properties of the frontend *)

\* C26: a dashboard page is rendered only while isAuthenticated is true,
\* whatever navigations, login-page button clicks and logouts came before.
DashboardNeedsLogin == location \in DashboardPaths => isAuthenticated

\* C30: once the effect has run for the current isAuthenticated,
\* isAuthenticated is true exactly when user is non-null and exactly when
\* the stored key is "true" (so after a logout the user is null and the key
\* is removed); and when the app is loaded anew, isAuthenticated starts as
\* what the stored key says.
AuthStateAgrees ==
    /\ [](EffectFlushed =>
            /\ isAuthenticated <=> (user # NullUser)
            /\ isAuthenticated <=> (localStorage = "true")
            /\ ~isAuthenticated => (user = NullUser /\ localStorage = None))
    /\ [][effectRan' = None => (isAuthenticated' <=> (localStorage = "true"))]_vars

AuthStateWitness ==
    /\ EffectFlushed
    /\ isAuthenticated
    /\ user = StudentAccount
    /\ localStorage = "true"
    /\ location = "/"

----------------------------------------------------------------------------
(* Properties of the conversation memory *)

\* a window a session could be configured with, smaller than the number of
\* questions asked
Window == MaxAsks - 1

IsSuffix(s, t) == \E d \in 0..Len(t) : s = SubSeq(t, d + 1, Len(t))

\* C23: the conversation state of a session never holds more than the
\* configured window of turns; every ask leaves the turns in their order,
\* the new turn last, and only the oldest turns are dropped.
HistoryWindowed ==
    /\ [](Len(chat_history) <= Window)
    /\ [][\E q \in Questions, a \in ChainAnswers :
            /\ IsSuffix(chat_history', Append(chat_history, [question |-> q, answer |-> a]))
            /\ chat_history' # <<>>]_vars

\* the numbers the bracketed citations of a text name
CitedNumbers(text) == {ParseInt(ds) : ds \in Range(FindAll(text))}

\* C28: the returned citation list has, for every number n in 1..k that the
\* answer cites at least once, exactly one entry with number n, however
\* often the answer cites n.
CitationListComplete ==
    citations.status = "returned" =>
        \A n \in CitedNumbers(answer) \cap (1..Len(source_docs)) :
            Cardinality({i \in DOMAIN citations.list : citations.list[i].number = n}) = 1

====
